---- MODULE Spec2Model ----
(***************************************************************************)
(* Model of the package thermocouples_reference:                           *)
(*   function_types.py                                                     *)
(*     Polynomial_Gaussian_Piecewise_Function  (__init__, minT, maxT,      *)
(*                                              __call__, inverse)         *)
(*     Thermocouple_Reference  (__init__, minT_C, maxT_C, emf_mVC,         *)
(*                              emf_mVF, emf_mVK, emf_mVR, inverse_CmV,    *)
(*                              inverse_FmV, inverse_KmV, inverse_RmV)     *)
(*   units.py       Tunits_mat                                             *)
(*   __init__.py    thermocouples, assembled from source_OMEGA,            *)
(*                  source_NIST and source_ASTM                            *)
(*                                                                         *)
(* Numbers.  The program computes with floating-point numbers; the model   *)
(* computes with integers on a bounded grid, plus one not-a-number value.  *)
(* A value is a record [nan, v].  Temperatures in degrees Celsius,         *)
(* coefficients, voltages and tolerances are finite integers;              *)
(* temperatures in the other units are exact fractions.                    *)
(*                                                                         *)
(* Errors.  Every error the program raises itself is a Python ValueError   *)
(* told apart by its message.  The model names each raise site after the   *)
(* error kind the specification gives it, and an error of the interpreter  *)
(* after its Python class:                                                 *)
(*   function_types.py:59,61  "InvalidTableError"                          *)
(*   function_types.py:56     "IndexError"        (table[0] of an empty    *)
(*                                                 list)                   *)
(*   function_types.py:101    "InvalidPolicyError"                         *)
(*   function_types.py:135    "UnsupportedDerivativeError"                 *)
(*   function_types.py:155    "OutOfRangeError"                            *)
(*   function_types.py:225    "OutOfDomainError"                           *)
(*   function_types.py:229    "ConvergenceError"                           *)
(*   function_types.py:384    "UnsupportedUnitsError"                      *)
(*   function_types.py:456    "NameError"         (mul, add not bound)     *)
(*   units.py:42              "KeyError"          (Tunits_mat[base])       *)
(*   __init__.py:37           "UnknownTypeError"  (KeyError of             *)
(*                                                 thermocouples[id])      *)
(*                                                                         *)
(* Specifications.  SpecEvaluate covers construction and forward           *)
(* evaluation (raw and through the facade), SpecInverse the two-stage      *)
(* inverse search, SpecConstruct construction with any units and the       *)
(* facade's check of them, SpecForward and SpecFacadeInverse the facade's  *)
(* methods in the four temperature units, SpecRoundTrip the inverse of an  *)
(* emf of the facade, SpecUnits the conversion table, SpecRegistry the     *)
(* import of the package and lookups in it, SpecAlias a caller who writes  *)
(* to the list a function was constructed from.                            *)
(***************************************************************************)
EXTENDS Integers, Sequences, FiniteSets, TLC

(***************************************************************************)
(* Bounds of the model.                                                    *)
(***************************************************************************)
\* Segment limits are drawn from 0..MaxT.
MaxT == 2
\* A table passed to the constructor has at most MaxSeg segments.
MaxSeg == 2
\* A batch of inputs of __call__ has 1..MaxBatch temperatures.
MaxBatch == 2

(***************************************************************************)
(* Program constants.                                                      *)
(***************************************************************************)
\* The highest derivative order the Gaussian branch computes.
GaussMaxDerivative == 3

\* Derivative orders tried: every order the Gaussian branch computes and
\* one beyond.
Derivatives == 0..(GaussMaxDerivative + 1)

\* The temperature grid: the segment limits and one step outside them on
\* either side.
Temps == (0 - 1)..(MaxT + 1)

Policies == {"raise", "nan", "extrapolate"}

(***************************************************************************)
(* Values.                                                                 *)
(***************************************************************************)
Num(x) == [nan |-> FALSE, v |-> x]

NaN == [nan |-> TRUE, v |-> 0]

\* a - b in floating point: not-a-number as soon as one operand is.
Sub(a, b) == IF a.nan \/ b.nan THEN NaN ELSE Num(a.v - b.v)

Abs(x) == IF x < 0 THEN 0 - x ELSE x

AbsVal(a) == IF a.nan THEN NaN ELSE Num(Abs(a.v))

\* a <= b and a > b in floating point: every comparison with not-a-number
\* is false.
LeqVal(a, b) == ~a.nan /\ ~b.nan /\ a.v <= b.v

GtVal(a, b) == ~a.nan /\ ~b.nan /\ a.v > b.v

\* An optional sequence of temperatures: Python's None, or an array.
None == [present |-> FALSE, temps |-> <<>>]

Some(s) == [present |-> TRUE, temps |-> s]

\* An optional number: Python's None, or a float.
NoNum == [given |-> FALSE, v |-> 0]

Given(x) == [given |-> TRUE, v |-> x]

(***************************************************************************)
(* Exact fractions, for temperatures in units other than degrees Celsius:  *)
(* 5/9, 273.15 = 5463/20 and 491.67 = 49167/100 are not integers.  A       *)
(* fraction is a record [n, d] in lowest terms with d > 0.                 *)
(***************************************************************************)
RECURSIVE GCD(_, _)
GCD(a, b) == IF b = 0 THEN a ELSE GCD(b, a % b)

Rat(n, d) ==
  LET g == GCD(Abs(n), d) IN [n |-> n \div g, d |-> d \div g]

RatInt(x) == Rat(x, 1)

RatAdd(a, b) == Rat(a.n * b.d + b.n * a.d, a.d * b.d)

RatMul(a, b) == Rat(a.n * b.n, a.d * b.d)

RECURSIVE RatPow(_, _)
RatPow(a, k) == IF k = 0 THEN RatInt(1) ELSE RatMul(a, RatPow(a, k - 1))

\* The integer a fraction stands for (its floor when it is not whole).
RatFloor(a) == a.n \div a.d

\* An optional fraction: Python's None, or a float in another unit.
NoRat == [given |-> FALSE, v |-> RatInt(0)]

(***************************************************************************)
(* Segments and tables.  A segment is (minimum T, maximum T, polynomial    *)
(* coefs highest power first, exponential coefs or None).  ec = <<>> is    *)
(* None.                                                                   *)
(***************************************************************************)
\* The two segment formulas of the model: a cubic that is not monotonic
\* (x^3 - 3x) without a Gaussian term, and a line (2x) with the Gaussian
\* term 1 * exp(-1 * (T - 1)^2).
Formulas ==
  { [coefs |-> <<1, 0, 0 - 3, 0>>, ec |-> <<>>],
    [coefs |-> <<2, 0>>, ec |-> <<1, 0 - 1, 1>>] }

Segments ==
  { [tmin |-> a, tmax |-> b, coefs |-> f.coefs, ec |-> f.ec] :
      a \in 0..MaxT, b \in 0..MaxT, f \in Formulas }

\* Every list of at most MaxSeg segments, the empty list included.
Tables == UNION { [1..n -> Segments] : n \in 0..MaxSeg }

\* The tables of the round trips: the same, with a third formula, the line
\* x + 1, whose value at 0 is not 0.
RoundTripFormulas == Formulas \cup { [coefs |-> <<1, 1>>, ec |-> <<>>] }

RoundTripSegments ==
  { [tmin |-> a, tmax |-> b, coefs |-> f.coefs, ec |-> f.ec] :
      a \in 0..MaxT, b \in 0..MaxT, f \in RoundTripFormulas }

RoundTripTables == UNION { [1..n -> RoundTripSegments] : n \in 1..MaxSeg }

\* The tables of the derivatives: segments without a Gaussian term, of
\* degree 3 (the cubic) and of degree 1 (the line x + 1).
PolynomialSegments == { seg \in RoundTripSegments : Len(seg.ec) = 0 }

PolynomialTables == UNION { [1..n -> PolynomialSegments] : n \in 1..MaxSeg }

\* Temperatures given to a function of range [lo, hi]: every grid point of
\* the range, and one step outside it on either side.
Probes(lo, hi) == (lo - 1)..(hi + 1)

\* Every batch of inputs for a function of range [lo, hi].
Batches(lo, hi) == UNION { [1..n -> Probes(lo, hi)] : n \in 1..MaxBatch }

UnitPairs == { <<"C", "mV">>, <<"K", "mV">>, <<"C", "uV">> }

(***************************************************************************)
(* units.py, lines 41-56: the conversion matrices for temperatures.  Each  *)
(* matrix is [[mul, add], [0, 1]]; the program reads its first row, kept   *)
(* here as <<mul, add>>.  The table has the one key 'C', the unit of the   *)
(* function; 'from' converts a unit to degrees Celsius and 'to' converts   *)
(* degrees Celsius to a unit.                                              *)
(***************************************************************************)
TempUnits == {"C", "F", "K", "R"}

\* Variant for comparison: the Rankine offset of 'from' is the one of 'to'
\* negated.
Tunits_matRankineSlip ==
  [C |->
    [from |->
       [K |-> <<Rat(1, 1), Rat(0 - 5463, 20)>>,
        C |-> <<Rat(1, 1), Rat(0, 1)>>,
        R |-> <<Rat(5, 9), Rat(0 - 49167, 100)>>,
        F |-> <<Rat(5, 9), Rat(0 - 32 * 5, 9)>>],
     to |->
       [K |-> <<Rat(1, 1), Rat(5463, 20)>>,
        C |-> <<Rat(1, 1), Rat(0, 1)>>,
        R |-> <<Rat(9, 5), Rat(49167, 100)>>,
        F |-> <<Rat(9, 5), Rat(32, 1)>>]]]

Tunits_mat ==
  [C |->
    [from |->
       [K |-> <<Rat(1, 1), Rat(0 - 5463, 20)>>,
        C |-> <<Rat(1, 1), Rat(0, 1)>>,
        R |-> <<Rat(5, 9), Rat(0 - 5463, 20)>>,
        F |-> <<Rat(5, 9), Rat(0 - 32 * 5, 9)>>],
     to |->
       [K |-> <<Rat(1, 1), Rat(5463, 20)>>,
        C |-> <<Rat(1, 1), Rat(0, 1)>>,
        R |-> <<Rat(9, 5), Rat(49167, 100)>>,
        F |-> <<Rat(9, 5), Rat(32, 1)>>]]]

\* T*mul + add, with mul, add the first row of a matrix.
Affine(row, x) == RatAdd(RatMul(x, row[1]), row[2])

\* From a unit to degrees Celsius, and back.
ToCelsius(u, x) == Affine(Tunits_mat["C"]["from"][u], x)

FromCelsius(u, x) == Affine(Tunits_mat["C"]["to"][u], x)

\* Values given to a conversion: halves around the temperature grid.
UnitValues == { Rat(n, d) : n \in (0 - MaxT - 1)..(MaxT + 1), d \in 1..2 }

(***************************************************************************)
(* numpy.polyder, numpy.polyval and numpy.exp as the program uses them.    *)
(***************************************************************************)
\* Variant for comparison: the constant term is dropped and no coefficient
\* is multiplied.
polyder1Unscaled(p) == [i \in 1..(Len(p) - 1) |-> p[i]]

\* One differentiation: the coefficient of x^j becomes j times itself as
\* the coefficient of x^(j-1); the constant term is dropped.
polyder1(p) == [i \in 1..(Len(p) - 1) |-> p[i] * (Len(p) - i)]

RECURSIVE polyder(_, _)
polyder(p, m) == IF m = 0 THEN p ELSE polyder(polyder1(p), m - 1)

RECURSIVE horner(_, _, _, _)
horner(p, x, i, y) ==
  IF i > Len(p) THEN y ELSE horner(p, x, i + 1, y * x + p[i])

\* Horner evaluation; the empty polynomial evaluates to 0.
polyval(p, x) == horner(p, x, 1, 0)

\* exp on the integer grid, for the arguments a decaying Gaussian gives it
\* (x <= 0): exp(0) = 1, and exp(x) rounds to 0 for x <= -1.
Exp(x) == IF x = 0 THEN 1 ELSE 0

(***************************************************************************)
(* Polynomial_Gaussian_Piecewise_Function.minT / maxT                      *)
(***************************************************************************)
minT(table) == table[1].tmin

maxT(table) == table[Len(table)].tmax

(***************************************************************************)
(* __call__, lines 113-116: the segment selector of one input.             *)
(***************************************************************************)
\* Variant for comparison: a maximum already counts as exceeded.
ExceedsSame(seg, T) == IF T >= seg.tmax THEN 1 ELSE 0

\* selector += (T > tmax)
Exceeds(seg, T) == IF T > seg.tmax THEN 1 ELSE 0

RECURSIVE CountExceeded(_, _, _)
CountExceeded(table, T, n) ==
  IF n = 0 THEN 0 ELSE CountExceeded(table, T, n - 1) + Exceeds(table[n], T)

\* selector = (T >= tmin)*1, then += (T > tmax) for every segment
Selector(table, T) ==
  (IF T >= minT(table) THEN 1 ELSE 0) + CountExceeded(table, T, Len(table))

(***************************************************************************)
(* __call__, lines 119-135: the value of one segment's formula at T.       *)
(***************************************************************************)
\* Variant for comparison: the refusal does not look at the Gaussian term.
RefusesAlways(seg, derivative) == derivative > GaussMaxDerivative

\* if ec: ... else: raise ValueError("sorry, derivatives > 3 not supported
\* for this type.")  The raise is inside "if ec:", so only a segment with a
\* Gaussian term refuses.
Refuses(seg, derivative) ==
  Len(seg.ec) > 0 /\ derivative > GaussMaxDerivative

GaussTerm(ec, T, derivative) ==
  LET dT == T - ec[3]
      gauss == ec[1] * Exp(ec[2] * dT * dT)
  IN  CASE derivative = 0 -> gauss
        [] derivative = 1 -> 2 * ec[2] * gauss * dT
        [] derivative = 2 -> 2 * ec[2] * gauss * (2 * ec[2] * dT * dT + 1)
        [] OTHER -> 4 * ec[2] * ec[2] * gauss * dT * (2 * ec[2] * dT * dT + 3)

SegEmf(seg, T, derivative) ==
  polyval(polyder(seg.coefs, derivative), T)
    + (IF Len(seg.ec) > 0 THEN GaussTerm(seg.ec, T, derivative) ELSE 0)

(***************************************************************************)
(* __call__, lines 137-157: out-of-range policy and the final choice.      *)
(***************************************************************************)
\* Variant for comparison: the two extrapolating entries exchanged.
ChoiceSwapped(table, T, derivative, policy, sel) ==
  LET N == Len(table)
  IN  IF sel \in 1..N THEN Num(SegEmf(table[sel], T, derivative))
      ELSE IF policy = "nan" THEN NaN
      ELSE IF sel = 0 THEN Num(SegEmf(table[N], T, derivative))
      ELSE Num(SegEmf(table[1], T, derivative))

\* Variant for comparison: under "nan" the last segment yields not-a-number
\* for its own inputs too.
ChoiceNanOff(table, T, derivative, policy, sel) ==
  LET N == Len(table)
  IN  IF sel \in 1..N /\ ~(policy = "nan" /\ sel = N)
      THEN Num(SegEmf(table[sel], T, derivative))
      ELSE IF policy = "nan" THEN NaN
      ELSE IF sel = 0 THEN Num(SegEmf(table[1], T, derivative))
      ELSE Num(SegEmf(table[N], T, derivative))

\* emf_choices[selector] for one input: entries 1..N are the segments'
\* values, entries 0 and N+1 are not-a-number under "nan" and the first
\* and last segment's values otherwise.
Choice(table, T, derivative, policy, sel) ==
  LET N == Len(table)
  IN  IF sel \in 1..N THEN Num(SegEmf(table[sel], T, derivative))
      ELSE IF policy = "nan" THEN NaN
      ELSE IF sel = 0 THEN Num(SegEmf(table[1], T, derivative))
      ELSE Num(SegEmf(table[N], T, derivative))

\* u_temps / o_temps with "if size == 0: None".
OrNone(s) == IF Len(s) = 0 THEN None ELSE Some(s)

\* Variant for comparison: the inputs of the first segment count as under.
UndersLoose(table, T) ==
  LET IsUnder(t) == Selector(table, t) <= 1 IN SelectSeq(T, IsUnder)

\* unders = selector <= 0 ; overs = selector > len(self.table) ;
\* np.extract(mask, T) keeps the inputs the mask selects, in input order.
Unders(table, T) ==
  LET IsUnder(t) == Selector(table, t) <= 0 IN SelectSeq(T, IsUnder)

Overs(table, T) ==
  LET IsOver(t) == Selector(table, t) > Len(table) IN SelectSeq(T, IsOver)

\* The outcome of a call: err = "none" and the result, or an error and,
\* for a range error, the two groups it carries.
\* selector is the array of the inputs' selectors, once line 116 has
\* computed it.
Returned(sel, r) ==
  [err |-> "none", selector |-> sel, result |-> r, unders |-> None,
   overs |-> None]

Raised(e) ==
  [err |-> e, selector |-> <<>>, result |-> <<>>, unders |-> None,
   overs |-> None]

RaisedRange(sel, u, o) ==
  [err |-> "OutOfRangeError", selector |-> sel, result |-> <<>>,
   unders |-> u, overs |-> o]

\* The whole of __call__ on a batch T.
Evaluate(table, T, derivative, policy) ==
  IF policy \notin {"raise", "nan", "extrapolate"}
  THEN Raised("InvalidPolicyError")
  ELSE IF \E n \in 1..Len(table) : Refuses(table[n], derivative)
  THEN Raised("UnsupportedDerivativeError")
  ELSE IF policy = "raise"
          /\ (Len(Unders(table, T)) > 0 \/ Len(Overs(table, T)) > 0)
  THEN RaisedRange([i \in 1..Len(T) |-> Selector(table, T[i])],
                   OrNone(Unders(table, T)), OrNone(Overs(table, T)))
  ELSE Returned([i \in 1..Len(T) |-> Selector(table, T[i])],
                [i \in 1..Len(T) |->
                   Choice(table, T[i], derivative, policy,
                          Selector(table, T[i]))])

(***************************************************************************)
(* __init__, lines 55-62: the check of the table.                          *)
(***************************************************************************)
\* Variant for comparison: a gap between two segments is let through.
RECURSIVE CheckFromLoose(_, _, _)
CheckFromLoose(tbl, n, lastmax) ==
  IF n > Len(tbl) THEN "none"
  ELSE IF ~(tbl[n].tmin <= tbl[n].tmax) THEN "InvalidTableError"
  ELSE IF tbl[n].tmin < lastmax THEN "InvalidTableError"
  ELSE CheckFromLoose(tbl, n + 1, tbl[n].tmax)

\* The loop over the segments from segment n on, lastmax being the
\* previous segment's maximum.
RECURSIVE CheckFrom(_, _, _)
CheckFrom(tbl, n, lastmax) ==
  IF n > Len(tbl) THEN "none"
  ELSE IF ~(tbl[n].tmin <= tbl[n].tmax) THEN "InvalidTableError"
  ELSE IF tbl[n].tmin # lastmax THEN "InvalidTableError"
  ELSE CheckFrom(tbl, n + 1, tbl[n].tmax)

\* lastmax = table[0][0] raises IndexError on an empty list.
CheckTable(tbl) ==
  IF Len(tbl) = 0 THEN "IndexError" ELSE CheckFrom(tbl, 1, tbl[1].tmin)

(***************************************************************************)
(* Thermocouple_Reference.__init__, line 383.                              *)
(***************************************************************************)
\* Variant for comparison: refused only when both units are foreign.
UnitsRefusedBoth(tu, vu) == tu # "C" /\ vu # "mV"

\* if func.Tunits != 'C' or func.Vunits != 'mV': raise ValueError(...)
UnitsRefused(tu, vu) == tu # "C" \/ vu # "mV"

(***************************************************************************)
(* inverse: the two searches of scipy.optimize as the program calls them.  *)
(***************************************************************************)
\* Targets and tolerances given to inverse.
Volts == Temps

Tolerances == {0, 1}

\* Tstart: None, or a temperature of the segment grid.
Starts == {NoNum} \cup {Given(t) : t \in 0..MaxT}

\* Variant for comparison: the target is added.
fun0Plus(table, V, T) ==
  Evaluate(table, <<T>>, 0, "extrapolate").result[1].v + V

\* fun0 = lambda T: self(T, out_of_range="extrapolate") - V
fun0(table, V, T) == Evaluate(table, <<T>>, 0, "extrapolate").result[1].v - V

\* The residual checks of lines 211 and 228.
\* Variant for comparison: the first search's result is never checked.
Stage1RejectsNever(table, V, Vtol, T) == FALSE

\* Variant for comparison: the first search's result is never accepted.
Stage1RejectsAlways(table, V, Vtol, T) == TRUE

\* Variant for comparison: the check evaluates under "extrapolate", as
\* the search does.
Stage1RejectsExtrapolated(table, V, Vtol, T) ==
  LET r == Evaluate(table, <<T>>, 0, "extrapolate")
  IN  GtVal(AbsVal(Sub(r.result[1], Num(V))), Num(Vtol))

\* Variant for comparison: the result is also refused when the function
\* is not strictly monotonic over its range.
Stage1RejectsNonMonotonic(table, V, Vtol, T) ==
  LET f(t) == Evaluate(table, <<t>>, 0, "extrapolate").result[1].v
      r == Evaluate(table, <<T>>, 0, "raise")
      steps == minT(table)..(maxT(table) - 1)
  IN  \/ ~ \/ \A t \in steps : f(t) < f(t + 1)
           \/ \A t \in steps : f(t) > f(t + 1)
      \/ r.err # "none"
      \/ GtVal(AbsVal(Sub(r.result[1], Num(V))), Num(Vtol))

\* abs(self(T) - V) > Vtol, self(T) raising when T is out of range.
Stage1Rejects(table, V, Vtol, T) ==
  LET r == Evaluate(table, <<T>>, 0, "raise")
  IN  \/ r.err # "none"
      \/ GtVal(AbsVal(Sub(r.result[1], Num(V))), Num(Vtol))

\* Variant for comparison: the second search's result is never checked.
Stage2RejectsNever(table, V, Vtol, T) == FALSE

\* not abs(self(T, out_of_range="nan") - V) <= Vtol
Stage2Rejects(table, V, Vtol, T) ==
  LET r == Evaluate(table, <<T>>, 0, "nan")
  IN  ~LeqVal(AbsVal(Sub(r.result[1], Num(V))), Num(Vtol))

\* Variant for comparison: a root at an end of the bracket is refused too.
SignErrorLoose(fa, fb) == fa * fb >= 0

\* optimize.brentq(fun0, a, b) refuses the bracket when f(a) and f(b) are
\* both non-zero and of one sign.
SignError(fa, fb) == fa * fb > 0

\* The temperatures brentq can return on the grid: an end of the bracket
\* that is a root; otherwise a point of [a, b] that is a root or next to a
\* change of sign of fun0.
BrentqRoots(table, V) ==
  LET a == minT(table)
      b == maxT(table)
      f(t) == fun0(table, V, t)
  IN  IF f(a) = 0 THEN {a}
      ELSE IF f(b) = 0 THEN {b}
      ELSE { t \in a..b :
               \/ f(t) = 0
               \/ t < b /\ f(t) * f(t + 1) < 0
               \/ t > a /\ f(t - 1) * f(t) < 0 }

\* The temperatures newton can return on the grid: the search runs under
\* "extrapolate" and may end anywhere, inside the range or outside it.
NewtonEnds(table) == Probes(minT(table), maxT(table))

\* Errors of the library other than the bracket's sign error: a ValueError
\* with another message, and an error that is not a ValueError.
LibraryErrors == {"LibraryValueError", "LibraryRuntimeError"}

(***************************************************************************)
(* The bundled thermocouples.  A bundled entry is                          *)
(*   Thermocouple_Reference(Polynomial_Gaussian_Piecewise_Function(        *)
(*       table, 'C', 'mV', ...), ttype=...)                                *)
(* and the model keeps of it the module that defines it, its ttype and the *)
(* limits of its segments.  The limits are decimal numbers with at most    *)
(* three decimals; the model writes them in thousandths of a degree        *)
(* Celsius (630.615 is 630615), which keeps their order and their          *)
(* equalities.                                                             *)
(***************************************************************************)
Range(lo, hi) == [tmin |-> lo, tmax |-> hi]

Bundled(source, ttype, ranges) ==
  [source |-> source, ttype |-> ttype, Tunits |-> "C", Vunits |-> "mV",
   table |-> ranges]

\* No facade.
NoEntry == Bundled("", "", <<>>)

EmptyDict == [id \in {} |-> NoEntry]

\* Variant for comparison: type D's second segment starts one degree
\* after the end of its first.
BundledOMEGAGap ==
  ("G" :> Bundled("OMEGA", "Type G", <<Range(0, 2315000)>>))
  @@ ("C" :> Bundled("OMEGA", "Type C", <<Range(0, 2315000)>>))
  @@ ("D" :> Bundled("OMEGA", "Type D",
                     <<Range(0, 783000), Range(784000, 2320000)>>))

\* source_OMEGA.py as create_tables_OMEGA.py writes it.
BundledOMEGA ==
  ("G" :> Bundled("OMEGA", "Type G", <<Range(0, 2315000)>>))
  @@ ("C" :> Bundled("OMEGA", "Type C", <<Range(0, 2315000)>>))
  @@ ("D" :> Bundled("OMEGA", "Type D",
                     <<Range(0, 783000), Range(783000, 2320000)>>))

\* source_NIST.py as create_tables_NIST.py writes it from the text of the
\* NIST tables: one segment for each "range:" line.
BundledNIST ==
  ("B" :> Bundled("NIST", "Type B",
                  <<Range(0, 630615), Range(630615, 1820000)>>))
  @@ ("E" :> Bundled("NIST", "Type E",
                     <<Range(0 - 270000, 0), Range(0, 1000000)>>))
  @@ ("J" :> Bundled("NIST", "Type J",
                     <<Range(0 - 210000, 760000), Range(760000, 1200000)>>))
  @@ ("K" :> Bundled("NIST", "Type K",
                     <<Range(0 - 270000, 0), Range(0, 1372000)>>))
  @@ ("N" :> Bundled("NIST", "Type N",
                     <<Range(0 - 270000, 0), Range(0, 1300000)>>))
  @@ ("R" :> Bundled("NIST", "Type R",
                     <<Range(0 - 50000, 1064180), Range(1064180, 1664500),
                       Range(1664500, 1768100)>>))
  @@ ("S" :> Bundled("NIST", "Type S",
                     <<Range(0 - 50000, 1064180), Range(1064180, 1664500),
                       Range(1664500, 1768100)>>))
  @@ ("T" :> Bundled("NIST", "Type T",
                     <<Range(0 - 270000, 0), Range(0, 400000)>>))

\* source_ASTM.py.
BundledASTM ==
  ("G" :> Bundled("ASTM", "Type G",
                  <<Range(0, 630615), Range(630615, 2315000)>>))
  @@ ("P" :> Bundled("ASTM", "Type P (II)",
                     <<Range(0, 746600), Range(746600, 1395000)>>))
  @@ ("AuFe 0.07" :> Bundled("ASTM", "Chromel-AuFe0.07",
                             <<Range(0 - 273000, 7000)>>))
  @@ ("PtMo 5-0.1" :> Bundled("ASTM", "PtMo 5-0.1",
                              <<Range(0, 491000), Range(491000, 1600000)>>))
  @@ ("PtRh 40-20" :> Bundled("ASTM", "PtRh 40-20",
                              <<Range(0, 951700), Range(951700, 1888000)>>))
  @@ ("M" :> Bundled("ASTM", "Type M",
                     <<Range(0 - 50000, 370800), Range(370800, 1410000)>>))
  @@ ("IrRh 40-0" :> Bundled("ASTM", "IrRh 40-0",
                             <<Range(0, 630615), Range(630615, 2110000)>>))
  @@ ("Au-Pt" :> Bundled("ASTM", "Au-Pt", <<Range(0, 1000000)>>))
  @@ ("Pt-Pd" :> Bundled("ASTM", "Pt-Pd",
                         <<Range(0, 660323), Range(660323, 1500000)>>))

\* The text of each source module, by the module's name.
SourceText ==
  [source_NIST |-> BundledNIST, source_ASTM |-> BundledASTM,
   source_OMEGA |-> BundledOMEGA]

\* from . import source_NIST, source_ASTM, source_OMEGA, in this order.
ImportOrder == <<"source_NIST", "source_ASTM", "source_OMEGA">>

\* thermocouples.update(...) of OMEGA, then NIST, then ASTM.
UpdateOrder == <<"source_OMEGA", "source_NIST", "source_ASTM">>

\* Keys a caller may look up: every key of a source module, and keys of
\* no module (a lower-case letter, a type that is not bundled, a ttype,
\* the spelling 'PtMo 5-01' of the docstring of source_ASTM, the empty
\* string).
Identifiers ==
  DOMAIN BundledOMEGA \cup DOMAIN BundledNIST \cup DOMAIN BundledASTM
    \cup {"g", "ZZ", "Type K", "PtMo 5-01", ""}

Dicts == {"thermocouples", "source_NIST", "source_ASTM", "source_OMEGA"}

(***************************************************************************)
(* State.                                                                  *)
(***************************************************************************)
VARIABLES
  pc,       \* "new": no function yet; "ready": the caller may call;
            \* "newton", "brentq": inside inverse; "returned": a call ended
  table,    \* self.table of the function (<<>>: no function)
  Tunits,   \* self.Tunits
  Vunits,   \* self.Vunits
  facade,   \* a Thermocouple_Reference wraps the function
  args,     \* the arguments of the call in progress or just ended
  inv,      \* inverse's locals: the seed and what each stage did
  out,      \* what the call returned or raised
  pkg       \* the package: its source modules and its thermocouples dict

vars == <<pc, table, Tunits, Vunits, facade, args, inv, out, pkg>>

\* base, dir, unit and x are the arguments of a conversion of units; unit,
\* x and xref are the unit system of a call of the facade and its T and
\* Tref in that unit; emf and xstart are the emf and Tstart given to an
\* inverse_ method; dict and id are the dictionary and the key of a lookup.
NoArgs ==
  [op |-> "none", table |-> <<>>, Tunits |-> "", Vunits |-> "",
   T |-> <<>>, Tref |-> 0, derivative |-> 0, policy |-> "",
   V |-> 0, Tstart |-> NoNum, Vtol |-> 0,
   base |-> "", dir |-> "", unit |-> "", x |-> RatInt(0),
   xref |-> RatInt(0), emf |-> 0, xstart |-> NoRat,
   dict |-> "", id |-> ""]

NoInv ==
  [seed2 |-> 0, newton |-> "none", newtonT |-> 0, stage1 |-> "none",
   brentq |-> "none", brentqT |-> 0, stage2 |-> "none"]

\* out.T is the temperature inverse returns and out.Tu the temperature
\* the call returns to its caller, in the caller's unit; out.there and
\* out.back are the results of a conversion of units and of the conversion
\* back; out.entry is the facade a lookup returns, out.minT_C and
\* out.maxT_C what its properties of these names return.
NoOut == [err |-> "none", selector |-> <<>>, result |-> <<>>,
          unders |-> None, overs |-> None, T |-> NoNum,
          there |-> RatInt(0), back |-> RatInt(0), Tu |-> RatInt(0),
          entry |-> NoEntry, minT_C |-> RatInt(0), maxT_C |-> RatInt(0)]

Outcome(r) == [err |-> r.err, selector |-> r.selector, result |-> r.result,
               unders |-> r.unders, overs |-> r.overs, T |-> NoNum,
               there |-> RatInt(0), back |-> RatInt(0), Tu |-> RatInt(0),
               entry |-> NoEntry, minT_C |-> RatInt(0),
               maxT_C |-> RatInt(0)]

\* pkg.imported counts the source modules imported, pkg.updated the
\* updates of thermocouples done; pkg.err is the error that ended the
\* import of the package.
NoPkg ==
  [imported |-> 0, updated |-> 0, err |-> "none",
   source_NIST |-> EmptyDict, source_ASTM |-> EmptyDict,
   source_OMEGA |-> EmptyDict, thermocouples |-> EmptyDict]

Init ==
  /\ pc = "new"
  /\ table = <<>>
  /\ Tunits = ""
  /\ Vunits = ""
  /\ facade = FALSE
  /\ args = NoArgs
  /\ inv = NoInv
  /\ out = NoOut
  /\ pkg = NoPkg

(***************************************************************************)
(* Polynomial_Gaussian_Piecewise_Function(table, Tunits, Vunits)           *)
(***************************************************************************)
ConstructWith(tables, pairs) ==
  /\ pc = "new"
  /\ \E tbl \in tables, u \in pairs :
       /\ args' = [NoArgs EXCEPT !.op = "Construct", !.table = tbl,
                                 !.Tunits = u[1], !.Vunits = u[2]]
       /\ IF CheckTable(tbl) = "none"
          THEN /\ table' = tbl
               /\ Tunits' = u[1]
               /\ Vunits' = u[2]
               /\ out' = NoOut
          ELSE /\ UNCHANGED <<table, Tunits, Vunits>>
               /\ out' = [NoOut EXCEPT !.err = CheckTable(tbl)]
  /\ pc' = "returned"
  /\ UNCHANGED <<facade, inv, pkg>>

ConstructFrom(pairs) == ConstructWith(Tables, pairs)

\* The bundled tables are all in degrees Celsius and millivolts.
Construct == ConstructFrom({<<"C", "mV">>})

ConstructRoundTrip == ConstructWith(RoundTripTables, {<<"C", "mV">>})

ConstructAnyUnits == ConstructFrom(UnitPairs)

ConstructPolynomial == ConstructWith(PolynomialTables, {<<"C", "mV">>})

(***************************************************************************)
(* The caller's list.  __init__ binds self.table to the list it is given   *)
(* (self.table = table) and copies neither the list, nor its rows, nor     *)
(* their coefficient arrays: the caller's list and the function's table    *)
(* are one object, the variable table.  Between two calls the caller may   *)
(* assign to a limit of a row (t[i][0] = v, t[i][1] = v) or to its         *)
(* coefficients (t[i][2][:] = ..., t[i][3] = ...).                         *)
(***************************************************************************)
CallerModifies ==
  /\ pc = "ready"
  /\ ~facade
  /\ \E i \in 1..Len(table), v \in 0..MaxT, f \in Formulas :
       \/ table' = [table EXCEPT ![i].tmin = v]
       \/ table' = [table EXCEPT ![i].tmax = v]
       \/ table' = [table EXCEPT ![i].coefs = f.coefs, ![i].ec = f.ec]
  /\ table' # table
  /\ UNCHANGED <<pc, Tunits, Vunits, facade, args, inv, out, pkg>>

(***************************************************************************)
(* func(T, derivative, out_of_range)                                       *)
(***************************************************************************)
Call ==
  /\ pc = "ready"
  /\ ~facade
  /\ \E T \in Batches(minT(table), maxT(table)),
        d \in Derivatives, p \in Policies :
       /\ args' = [NoArgs EXCEPT !.op = "Evaluate", !.T = T,
                                 !.derivative = d, !.policy = p]
       /\ out' = Outcome(Evaluate(table, T, d, p))
  /\ pc' = "returned"
  /\ UNCHANGED <<table, Tunits, Vunits, facade, inv, pkg>>

(***************************************************************************)
(* Thermocouple_Reference(func)                                            *)
(***************************************************************************)
FacadeConstruct ==
  /\ pc = "ready"
  /\ ~facade
  /\ args' = [NoArgs EXCEPT !.op = "FacadeConstruct"]
  /\ IF UnitsRefused(Tunits, Vunits)
     THEN /\ out' = [NoOut EXCEPT !.err = "UnsupportedUnitsError"]
          /\ UNCHANGED facade
     ELSE /\ out' = NoOut
          /\ facade' = TRUE
  /\ pc' = "returned"
  /\ UNCHANGED <<table, Tunits, Vunits, inv, pkg>>

(***************************************************************************)
(* Thermocouple_Reference.emf_mVC(T, Tref, derivative, out_of_range)       *)
(***************************************************************************)
emf_mVC(T, Tref, derivative, policy) ==
  LET f_T == Evaluate(table, T, derivative, policy)
      f_ref == Evaluate(table, <<Tref>>, derivative, policy)
  IN  IF f_T.err # "none" THEN f_T
      ELSE IF derivative # 0 THEN f_T
      ELSE IF f_ref.err # "none" THEN f_ref
      ELSE Returned(f_T.selector,
                    [i \in 1..Len(T) |->
                       Sub(f_T.result[i], f_ref.result[1])])

EmfForward ==
  /\ pc = "ready"
  /\ facade
  /\ \E t \in Probes(minT(table), maxT(table)),
        r \in Probes(minT(table), maxT(table)),
        d \in Derivatives, p \in Policies :
       /\ args' = [NoArgs EXCEPT !.op = "EmfForward", !.T = <<t>>,
                                 !.Tref = r, !.derivative = d, !.policy = p]
       /\ out' = Outcome(emf_mVC(<<t>>, r, d, p))
  /\ pc' = "returned"
  /\ UNCHANGED <<table, Tunits, Vunits, facade, inv, pkg>>

(***************************************************************************)
(* Thermocouple_Reference.emf_mVC / emf_mVF / emf_mVK / emf_mVR, with T    *)
(* and Tref in the unit of the method.                                     *)
(***************************************************************************)
\* The default Tref of the methods of each unit: the ice point.
TrefDefault ==
  [C |-> RatInt(0), F |-> RatInt(32), K |-> Rat(5463, 20),
   R |-> Rat(49167, 100)]

\* A value of the function as a value of the facade in another unit.
RatVal(a) == [nan |-> a.nan, v |-> RatInt(a.v)]

\* a - b on such values.
RatSub(a, b) ==
  IF a.nan \/ b.nan THEN RatVal(NaN)
  ELSE [nan |-> FALSE, v |-> RatAdd(a.v, RatMul(RatInt(0 - 1), b.v))]

\* Variant for comparison: the multiplier is not raised to the order.
ScaleLinear(mul, derivative) == mul

\* mul**derivative
Scale(mul, derivative) == RatPow(mul, derivative)

\* f_T * (mul**derivative)
Scaled(a, r) ==
  IF a.nan THEN RatVal(NaN) ELSE [nan |-> FALSE, v |-> RatMul(RatInt(a.v), r)]

\* Variant for comparison: the reference junction is left out.
CompensateOff(f_T, f_ref) == RatVal(f_T)

\* return f_T - f_ref
Compensate(f_T, f_ref) == RatVal(Sub(f_T, f_ref))

\* emf_mVF, emf_mVK and emf_mVR: the three bodies differ in the unit only.
emf_mVU(u, T, Tref, derivative, policy) ==
  LET row == Tunits_mat["C"]["from"][u]
      f_T == Evaluate(table, <<RatFloor(Affine(row, T))>>, derivative, policy)
      f_ref == Evaluate(table, <<RatFloor(Affine(row, Tref))>>, derivative,
                        policy)
  IN  IF f_T.err # "none" THEN f_T
      ELSE IF derivative # 0
      THEN Returned(f_T.selector,
                    <<Scaled(f_T.result[1], Scale(row[1], derivative))>>)
      ELSE IF f_ref.err # "none" THEN f_ref
      ELSE Returned(f_T.selector,
                    <<Compensate(f_T.result[1], f_ref.result[1])>>)

\* The method of the unit u.  emf_mVC takes T and Tref as they are.
emf_mV(u, T, Tref, derivative, policy) ==
  IF u = "C"
  THEN LET r == emf_mVC(<<RatFloor(T)>>, RatFloor(Tref), derivative, policy)
       IN  IF r.err # "none" THEN r
           ELSE Returned(r.selector, <<RatVal(r.result[1])>>)
  ELSE emf_mVU(u, T, Tref, derivative, policy)

\* Temperatures given to a method of the unit u: the temperatures of the
\* grid of degrees Celsius, expressed in u.
CallerTemps(u) ==
  { FromCelsius(u, RatInt(c)) : c \in Probes(minT(table), maxT(table)) }

EmfForwardUnits ==
  /\ pc = "ready"
  /\ facade
  /\ \E u \in TempUnits, d \in Derivatives, p \in Policies :
       \E t \in CallerTemps(u), r \in CallerTemps(u) :
         /\ args' = [NoArgs EXCEPT !.op = "EmfForwardUnits", !.unit = u,
                                   !.x = t, !.xref = r, !.derivative = d,
                                   !.policy = p]
         /\ out' = Outcome(emf_mV(u, t, r, d, p))
  /\ pc' = "returned"
  /\ UNCHANGED <<table, Tunits, Vunits, facade, inv, pkg>>

(***************************************************************************)
(* A conversion of units: the caller reads Tunits_mat[base][dir][unit] and *)
(* applies its first row to x, then applies the row of the opposite        *)
(* direction to the result.                                                *)
(***************************************************************************)
Opposite(dir) == IF dir = "from" THEN "to" ELSE "from"

\* Python's dict lookup raises KeyError on a key the table does not have.
Convert ==
  /\ pc = "new"
  /\ \E base \in TempUnits, dir \in {"from", "to"}, u \in TempUnits,
        x \in UnitValues :
       /\ args' = [NoArgs EXCEPT !.op = "Convert", !.base = base,
                                 !.dir = dir, !.unit = u, !.x = x]
       /\ IF base \in DOMAIN Tunits_mat
          THEN /\ out' = [NoOut EXCEPT
                            !.there = Affine(Tunits_mat[base][dir][u], x)]
               /\ pc' = "converted"
          ELSE /\ out' = [NoOut EXCEPT !.err = "KeyError"]
               /\ pc' = "returned"
  /\ UNCHANGED <<table, Tunits, Vunits, facade, inv, pkg>>

ConvertBack ==
  /\ pc = "converted"
  /\ out' = [out EXCEPT !.back =
               Affine(Tunits_mat[args.base][Opposite(args.dir)][args.unit],
                      out.there)]
  /\ pc' = "returned"
  /\ UNCHANGED <<table, Tunits, Vunits, facade, args, inv, pkg>>

(***************************************************************************)
(* func.inverse(V, Tstart, Vtol)                                           *)
(***************************************************************************)
\* inverse returns T.  Called by inverse_FmV, inverse_KmV or inverse_RmV,
\* lines 471-473 and their like, T*imul + iadd goes to the caller;
\* inverse_CmV, line 461, returns T as it is.
Finished(T) ==
  [NoOut EXCEPT !.T = Given(T),
                !.Tu = IF args.op = "EmfInverse" /\ args.unit # "C"
                       THEN FromCelsius(args.unit, RatInt(T))
                       ELSE RatInt(T)]

\* Lines 197-207: the seed of the first search.  seed2 is twice the seed:
\* 0.5*(minT + maxT) need not be on the grid.  scipy.optimize is taken to be
\* installed (ensure_import_optimize, line 197, succeeds).
InverseStart ==
  /\ pc = "ready"
  /\ ~facade
  /\ \E V \in Volts, s \in Starts, tol \in Tolerances :
       /\ args' = [NoArgs EXCEPT !.op = "Inverse", !.V = V, !.Tstart = s,
                                 !.Vtol = tol]
       /\ inv' = [NoInv EXCEPT !.seed2 =
                    IF s = NoNum THEN minT(table) + maxT(table) ELSE 2 * s.v]
  /\ out' = NoOut
  /\ pc' = "newton"
  /\ UNCHANGED <<table, Tunits, Vunits, facade, pkg>>

\* Lines 208-213: newton, then the check of its result; whatever is raised
\* inside the try is caught and leads to brentq.
Newton ==
  /\ pc = "newton"
  /\ \/ /\ inv' = [inv EXCEPT !.newton = "raised", !.stage1 = "rejected"]
        /\ pc' = "brentq"
        /\ UNCHANGED out
     \/ \E T \in NewtonEnds(table) :
          IF Stage1Rejects(table, args.V, args.Vtol, T)
          THEN /\ inv' = [inv EXCEPT !.newton = "returned", !.newtonT = T,
                                     !.stage1 = "rejected"]
               /\ pc' = "brentq"
               /\ UNCHANGED out
          ELSE /\ inv' = [inv EXCEPT !.newton = "returned", !.newtonT = T,
                                     !.stage1 = "accepted"]
               /\ pc' = "returned"
               /\ out' = Finished(T)
  /\ UNCHANGED <<table, Tunits, Vunits, facade, args, pkg>>

\* Lines 221-231: brentq on [minT, maxT], the translation of its sign
\* error, and the check of its result.
Brentq ==
  /\ pc = "brentq"
  /\ LET fa == fun0(table, args.V, minT(table))
         fb == fun0(table, args.V, maxT(table))
     IN  IF SignError(fa, fb)
         THEN /\ inv' = [inv EXCEPT !.brentq = "SignError",
                                    !.stage2 = "raised"]
              /\ out' = [NoOut EXCEPT !.err = "OutOfDomainError"]
         ELSE \/ \E T \in BrentqRoots(table, args.V) :
                   IF Stage2Rejects(table, args.V, args.Vtol, T)
                   THEN /\ inv' = [inv EXCEPT !.brentq = "returned",
                                              !.brentqT = T,
                                              !.stage2 = "rejected"]
                        /\ out' = [NoOut EXCEPT !.err = "ConvergenceError"]
                   ELSE /\ inv' = [inv EXCEPT !.brentq = "returned",
                                              !.brentqT = T,
                                              !.stage2 = "accepted"]
                        /\ out' = Finished(T)
              \/ \E e \in LibraryErrors :
                   /\ fa # 0
                   /\ fb # 0
                   /\ inv' = [inv EXCEPT !.brentq = e, !.stage2 = "raised"]
                   /\ out' = [NoOut EXCEPT !.err = e]
  /\ pc' = "returned"
  /\ UNCHANGED <<table, Tunits, Vunits, facade, args, pkg>>

(***************************************************************************)
(* Thermocouple_Reference.inverse_CmV / inverse_FmV / inverse_KmV /        *)
(* inverse_RmV(emf, Tref, Tstart, Vtol): the lines before self.func.inverse *)
(* is entered; Newton and Brentq go on from there.                         *)
(***************************************************************************)
\* Variant for comparison: the emf of the reference junction is
\* extrapolated outside the range.
ReferenceEmfExtrapolated(Tref) == Evaluate(table, <<Tref>>, 0, "extrapolate")

\* f_ref = self.func(Tref): out_of_range is left at its default, "raise".
ReferenceEmf(Tref) == Evaluate(table, <<Tref>>, 0, "raise")

\* Variant for comparison: the emf of the reference junction is left out.
TargetOff(emf, f_ref) == emf

\* emf + f_ref
Target(emf, f_ref) == emf + f_ref

\* Start guesses given to a method of the unit u: none, or the upper end
\* of the function's range expressed in u.
CallerStarts(u) == {NoRat, Given(FromCelsius(u, RatInt(maxT(table))))}

\* Measured emfs given to a method.
MeasuredEmfs == (0 - 1)..2

\* Line 456: inverse_CmV reads mul and add, which it never assigns (line
\* 453 is a comment): a Tstart other than None raises NameError.
StartRaises(u, Tstart) == u = "C" /\ Tstart.given

EmfInverseStart ==
  /\ pc = "ready"
  /\ facade
  /\ \E u \in TempUnits, emf \in MeasuredEmfs, tol \in Tolerances :
       \E r \in CallerTemps(u), s \in CallerStarts(u) :
         LET Tref == IF u = "C" THEN RatFloor(r)
                     ELSE RatFloor(ToCelsius(u, r))
             f_ref == ReferenceEmf(Tref)
             Tstart == IF s.given
                       THEN Given(RatFloor(ToCelsius(u, s.v)))
                       ELSE NoNum
             called == [NoArgs EXCEPT !.op = "EmfInverse", !.unit = u,
                                      !.emf = emf, !.xref = r, !.xstart = s,
                                      !.Vtol = tol]
         IN  IF f_ref.err # "none"
             THEN /\ args' = called
                  /\ out' = Outcome(f_ref)
                  /\ inv' = NoInv
                  /\ pc' = "returned"
             ELSE IF StartRaises(u, s)
             THEN /\ args' = called
                  /\ out' = [NoOut EXCEPT !.err = "NameError"]
                  /\ inv' = NoInv
                  /\ pc' = "returned"
             ELSE /\ args' = [called EXCEPT
                                !.V = Target(emf, f_ref.result[1].v),
                                !.Tstart = Tstart]
                  /\ out' = NoOut
                  /\ inv' = [NoInv EXCEPT !.seed2 =
                               IF s.given THEN 2 * Tstart.v
                               ELSE minT(table) + maxT(table)]
                  /\ pc' = "newton"
  /\ UNCHANGED <<table, Tunits, Vunits, facade, pkg>>

(***************************************************************************)
(* The round trip tc.func.inverse(tc.emf_mVC(T), Tstart, Vtol): emf_mVC    *)
(* with its default Tref = 0 and policy "raise", then the lines of inverse *)
(* before the first search; Newton and Brentq go on from there.            *)
(***************************************************************************)
RoundTripStart ==
  /\ pc = "ready"
  /\ facade
  /\ \E T \in Probes(minT(table), maxT(table)), s \in Starts,
        tol \in Tolerances :
       LET forward == emf_mVC(<<T>>, 0, 0, "raise")
           called == [NoArgs EXCEPT !.op = "RoundTrip", !.T = <<T>>,
                                    !.policy = "raise", !.Tstart = s,
                                    !.Vtol = tol]
       IN  IF forward.err # "none"
           THEN /\ args' = called
                /\ out' = Outcome(forward)
                /\ inv' = NoInv
                /\ pc' = "returned"
           ELSE /\ args' = [called EXCEPT !.V = forward.result[1].v]
                /\ out' = NoOut
                /\ inv' = [NoInv EXCEPT !.seed2 =
                             IF s = NoNum THEN minT(table) + maxT(table)
                             ELSE 2 * s.v]
                /\ pc' = "newton"
  /\ UNCHANGED <<table, Tunits, Vunits, facade, pkg>>

(***************************************************************************)
(* The package thermocouples_reference: the import of its source modules,  *)
(* the assembly of thermocouples, and lookups in the dictionaries.         *)
(***************************************************************************)
\* What the constructors say of one bundled entry: the function's check of
\* its table, then the facade's check of its units.
EntryError(e) ==
  IF CheckTable(e.table) # "none" THEN CheckTable(e.table)
  ELSE IF UnitsRefused(e.Tunits, e.Vunits) THEN "UnsupportedUnitsError"
  ELSE "none"

\* The error that ends the evaluation of a module's dictionary display,
\* "none" when every entry is constructed.
ModuleError(text) ==
  IF \A id \in DOMAIN text : EntryError(text[id]) = "none" THEN "none"
  ELSE LET id == CHOOSE i \in DOMAIN text : EntryError(text[i]) # "none"
       IN  EntryError(text[id])

\* from . import source_XXX: the module's dictionary is built, each entry
\* through the two constructors; an error of a constructor ends the import
\* of the package.
ImportSource ==
  /\ pc = "new"
  /\ pkg.err = "none"
  /\ pkg.imported < Len(ImportOrder)
  /\ LET m == ImportOrder[pkg.imported + 1]
     IN  pkg' = IF ModuleError(SourceText[m]) = "none"
                THEN [pkg EXCEPT !.imported = @ + 1, ![m] = SourceText[m]]
                ELSE [pkg EXCEPT !.err = ModuleError(SourceText[m])]
  /\ UNCHANGED <<pc, table, Tunits, Vunits, facade, args, inv, out>>

\* Variant for comparison: an entry already there is kept.
UpdateKeep(reg, src) ==
  [id \in DOMAIN reg \cup DOMAIN src |->
     IF id \in DOMAIN reg THEN reg[id] ELSE src[id]]

\* dict.update: every entry of src is put in reg, over an entry of the
\* same key.
Update(reg, src) ==
  [id \in DOMAIN reg \cup DOMAIN src |->
     IF id \in DOMAIN src THEN src[id] ELSE reg[id]]

\* thermocouples = dict() and the three updates, one at a step.
UpdateRegistry ==
  /\ pc = "new"
  /\ pkg.err = "none"
  /\ pkg.imported = Len(ImportOrder)
  /\ pkg.updated < Len(UpdateOrder)
  /\ LET m == UpdateOrder[pkg.updated + 1]
     IN  pkg' = [pkg EXCEPT !.updated = @ + 1,
                            !.thermocouples = Update(@, pkg[m])]
  /\ UNCHANGED <<pc, table, Tunits, Vunits, facade, args, inv, out>>

\* The package is imported.
Assembled == pkg.err = "none" /\ pkg.updated = Len(UpdateOrder)

\* Variant for comparison: a missing key gives a default, as dict.get.
SubscriptOrDefault(dict, id) ==
  IF id \in DOMAIN dict THEN [err |-> "none", entry |-> dict[id]]
  ELSE [err |-> "none", entry |-> NoEntry]

\* dict[id]: the entry, or KeyError, which the specification calls
\* UnknownTypeError.
Subscript(dict, id) ==
  IF id \in DOMAIN dict THEN [err |-> "none", entry |-> dict[id]]
  ELSE [err |-> "UnknownTypeError", entry |-> NoEntry]

\* thermocouples[id], or source_XXX.thermocouples[id].
Lookup ==
  /\ pc = "new"
  /\ Assembled
  /\ \E d \in Dicts, id \in Identifiers :
       /\ args' = [NoArgs EXCEPT !.op = "Lookup", !.dict = d, !.id = id]
       /\ out' = [NoOut EXCEPT !.err = Subscript(pkg[d], id).err,
                               !.entry = Subscript(pkg[d], id).entry]
  /\ pc' = "returned"
  /\ UNCHANGED <<table, Tunits, Vunits, facade, inv, pkg>>

\* The properties minT_C and maxT_C of the facade just looked up:
\* self.func.minT * imul + iadd with (imul, iadd) the row 'to' of 'C'.
ReadRange ==
  /\ pc = "returned"
  /\ args.op = "Lookup"
  /\ out.err = "none"
  /\ args' = [args EXCEPT !.op = "ReadRange"]
  /\ out' = [out EXCEPT
               !.minT_C = FromCelsius("C", RatInt(minT(out.entry.table))),
               !.maxT_C = FromCelsius("C", RatInt(maxT(out.entry.table)))]
  /\ UNCHANGED <<pc, table, Tunits, Vunits, facade, inv, pkg>>

(***************************************************************************)
(* The call has ended and the caller goes on.                              *)
(***************************************************************************)
Return ==
  /\ pc = "returned"
  /\ pc' = IF table = <<>> THEN "new" ELSE "ready"
  /\ args' = NoArgs
  /\ inv' = NoInv
  /\ out' = NoOut
  /\ UNCHANGED <<table, Tunits, Vunits, facade, pkg>>

(***************************************************************************)
(* Specifications, one for each group of operations.                       *)
(***************************************************************************)
\* A function is constructed, then evaluated, directly or through its
\* facade.
NextEvaluate ==
  \/ Construct
  \/ Call
  \/ FacadeConstruct
  \/ EmfForward
  \/ Return

SpecEvaluate == Init /\ [][NextEvaluate]_vars

\* A function is constructed, then inverted.
NextInverse ==
  \/ Construct
  \/ InverseStart
  \/ Newton
  \/ Brentq
  \/ Return

SpecInverse == Init /\ [][NextInverse]_vars

\* The two constructors, on tables and unit pairs of every kind.
NextConstruct ==
  \/ ConstructAnyUnits
  \/ FacadeConstruct
  \/ Return

SpecConstruct == Init /\ [][NextConstruct]_vars

\* A function is constructed and wrapped, and the facade is evaluated in
\* each of the four units.
NextForward ==
  \/ Construct
  \/ FacadeConstruct
  \/ EmfForwardUnits
  \/ Return

SpecForward == Init /\ [][NextForward]_vars

\* A function is constructed and wrapped, and the facade is inverted in
\* each of the four units.
NextFacadeInverse ==
  \/ Construct
  \/ FacadeConstruct
  \/ EmfInverseStart
  \/ Newton
  \/ Brentq
  \/ Return

SpecFacadeInverse == Init /\ [][NextFacadeInverse]_vars

\* A function is constructed and wrapped; an emf of the facade is given
\* to the function's inverse.
NextRoundTrip ==
  \/ ConstructRoundTrip
  \/ FacadeConstruct
  \/ RoundTripStart
  \/ Newton
  \/ Brentq
  \/ Return

SpecRoundTrip == Init /\ [][NextRoundTrip]_vars

\* Conversions of units, there and back.
NextUnits ==
  \/ Convert
  \/ ConvertBack
  \/ Return

SpecUnits == Init /\ [][NextUnits]_vars

\* A function is constructed and evaluated while its caller goes on
\* writing to the list it was constructed from.
NextAlias ==
  \/ Construct
  \/ CallerModifies
  \/ Call
  \/ Return

SpecAlias == Init /\ [][NextAlias]_vars

\* A function is constructed from segments without a Gaussian term, then
\* evaluated and differentiated.
NextDerivative ==
  \/ ConstructPolynomial
  \/ Call
  \/ Return

SpecDerivative == Init /\ [][NextDerivative]_vars

\* The package is imported, then its dictionaries are read.
NextRegistry ==
  \/ ImportSource
  \/ UpdateRegistry
  \/ Lookup
  \/ ReadRange
  \/ Return

SpecRegistry == Init /\ [][NextRegistry]_vars

(***************************************************************************)
(* Properties.                                                             *)
(***************************************************************************)
\* A call of func(...) has ended.
EvaluateEnded == pc = "returned" /\ args.op = "Evaluate"

\* The input lies in [minT, maxT], both ends included.
InRange(T) == minT(table) <= T /\ T <= maxT(table)

\* Some segment of the function carries a Gaussian term.
HasGaussian == \E n \in 1..Len(table) : Len(table[n].ec) > 0

\* What func(T, derivative) returns for the single in-range input T.
ValueUnderRaise(T, derivative) ==
  Evaluate(table, <<T>>, derivative, "raise").result[1]

\* C1: for every constructed function with N segments and every input T,
\* the selector is [T >= minT] plus the number of segment upper bounds T
\* strictly exceeds; it is 0 exactly when T < minT, N+1 exactly when
\* T > maxT, and otherwise the index in 1..N of the first segment whose
\* upper bound is >= T (so minT and maxT are in range and an interior
\* boundary belongs to the lower segment), and the value returned for T is
\* that segment's.
C1_SelectorPicksFirstCoveringSegment ==
  (EvaluateEnded /\ out.selector # <<>>) =>
    \A i \in 1..Len(args.T) :
      LET T == args.T[i]
          s == out.selector[i]
          N == Len(table)
      IN  /\ s = (IF T >= minT(table) THEN 1 ELSE 0)
                   + Cardinality({n \in 1..N : T > table[n].tmax})
          /\ (s = 0) <=> (T < minT(table))
          /\ (s = N + 1) <=> (T > maxT(table))
          /\ InRange(T) =>
               /\ s \in 1..N
               /\ table[s].tmax >= T
               /\ \A n \in 1..(s - 1) : table[n].tmax < T
          /\ (out.err = "none" /\ s \in 1..N) =>
               out.result[i] = Num(SegEmf(table[s], T, args.derivative))

\* C1 witness: a function of two segments of different formulas was
\* evaluated at their common boundary, which the lower segment got.
C1_Witness ==
  /\ EvaluateEnded
  /\ Len(table) = 2
  /\ table[1].tmin < table[1].tmax
  /\ table[2].tmin < table[2].tmax
  /\ table[1].coefs # table[2].coefs
  /\ args.T = <<table[1].tmax>>
  /\ out.selector = <<1>>
  /\ out.err = "none"

C3_NanReplacesOnlyTheOutOfRangeInputs ==
  (EvaluateEnded /\ args.policy = "nan") =>
    /\ out.err # "OutOfRangeError"
    /\ out.err = "none" <=>
         ~(HasGaussian /\ args.derivative > GaussMaxDerivative)
    /\ out.err = "none" =>
         /\ Len(out.result) = Len(args.T)
         /\ \A i \in 1..Len(args.T) :
              IF InRange(args.T[i])
              THEN /\ ~out.result[i].nan
                   /\ out.result[i] =
                        ValueUnderRaise(args.T[i], args.derivative)
              ELSE out.result[i] = NaN

\* C3 witness: a batch of an in-range input and an out-of-range input
\* returned a number and a not-a-number.
C3_Witness ==
  /\ EvaluateEnded
  /\ args.policy = "nan"
  /\ out.err = "none"
  /\ Len(args.T) = 2
  /\ InRange(args.T[1])
  /\ ~InRange(args.T[2])
  /\ ~out.result[1].nan
  /\ out.result[2].nan

\* C4: under "extrapolate" a call never fails with a range error (it fails
\* only when the function refuses the derivative order); an input below
\* minT is evaluated with the first segment's formula, an input above maxT
\* with the last segment's, and an in-range input yields the value it
\* yields under "raise".
C4_ExtrapolateUsesTheNearestSegment ==
  (EvaluateEnded /\ args.policy = "extrapolate") =>
    /\ out.err # "OutOfRangeError"
    /\ out.err = "none" <=>
         ~(HasGaussian /\ args.derivative > GaussMaxDerivative)
    /\ out.err = "none" =>
         /\ Len(out.result) = Len(args.T)
         /\ \A i \in 1..Len(args.T) :
              LET T == args.T[i]
              IN  out.result[i] =
                    IF T < minT(table)
                    THEN Num(SegEmf(table[1], T, args.derivative))
                    ELSE IF T > maxT(table)
                    THEN Num(SegEmf(table[Len(table)], T, args.derivative))
                    ELSE ValueUnderRaise(T, args.derivative)

\* C4 witness: a function whose first and last segments differ was
\* extrapolated below minT and above maxT in one batch, and the two
\* formulas give different values there.
C4_Witness ==
  /\ EvaluateEnded
  /\ args.policy = "extrapolate"
  /\ out.err = "none"
  /\ Len(table) = 2
  /\ Len(args.T) = 2
  /\ args.T[1] < minT(table)
  /\ args.T[2] > maxT(table)
  /\ SegEmf(table[1], args.T[1], args.derivative)
       # SegEmf(table[2], args.T[1], args.derivative)
  /\ SegEmf(table[1], args.T[2], args.derivative)
       # SegEmf(table[2], args.T[2], args.derivative)

\* A call of func(...) or of the facade's emf_mVC(...) has ended.
ForwardEnded ==
  pc = "returned" /\ args.op \in {"Evaluate", "EmfForward"}

\* C5 as stated: a call with a derivative order greater than 3 fails with
\* UnsupportedDerivativeError for every function, with or without a
\* Gaussian term, every input and every policy.
C5_AsStated_EveryFunctionRefusesOrdersAbove3 ==
  (ForwardEnded /\ args.derivative > GaussMaxDerivative) =>
    out.err = "UnsupportedDerivativeError"

\* C5 amended: a call of func(...) or emf_mVC(...) with a derivative order
\* greater than 3 fails with UnsupportedDerivativeError exactly when some
\* segment of the function carries a Gaussian term, for every input and
\* every policy; on a function without a Gaussian term the call is
\* evaluated as for any other order, and fails only with a range error
\* under "raise".
C5_OnlyGaussianFunctionsRefuseOrdersAbove3 ==
  (ForwardEnded /\ args.derivative > GaussMaxDerivative) =>
    /\ out.err = "UnsupportedDerivativeError" <=> HasGaussian
    /\ ~HasGaussian =>
         /\ out.err \in {"none", "OutOfRangeError"}
         /\ out.err = "OutOfRangeError" => args.policy = "raise"
         /\ out.err = "none" =>
              \A i \in 1..Len(args.T) :
                out.selector[i] \in 1..Len(table) =>
                  out.result[i] =
                    Num(polyval(polyder(table[out.selector[i]].coefs,
                                        args.derivative), args.T[i]))

\* C5 witness: a function with a Gaussian term in its second segment only
\* refused order 4 for an input of its first segment.
C5_Witness ==
  /\ ForwardEnded
  /\ args.derivative > GaussMaxDerivative
  /\ Len(table) = 2
  /\ Len(table[1].ec) = 0
  /\ Len(table[2].ec) > 0
  /\ table[1].tmin < table[1].tmax
  /\ args.T = <<table[1].tmin>>
  /\ out.err = "UnsupportedDerivativeError"

\* A table breaks the constructor's rules: some segment has
\* minTemp > maxTemp, or starts elsewhere than the previous one ends.
Malformed(tbl) ==
  \/ \E n \in 1..Len(tbl) : tbl[n].tmin > tbl[n].tmax
  \/ \E n \in 2..Len(tbl) : tbl[n].tmin # tbl[n - 1].tmax

\* C6: the constructor, given a non-empty list of segments, fails with
\* InvalidTableError if some segment has minTemp > maxTemp or starts
\* elsewhere than the previous segment ends, and succeeds otherwise; so the
\* segments of every constructed function are ascending and contiguous.
C6_ConstructAcceptsExactlyTheWellFormedTables ==
  /\ (pc = "returned" /\ args.op = "Construct" /\ Len(args.table) > 0) =>
       /\ out.err = "InvalidTableError" <=> Malformed(args.table)
       /\ out.err \in {"none", "InvalidTableError"}
       /\ out.err = "none" => table = args.table
       /\ out.err # "none" => table = <<>>
  /\ table # <<>> =>
       /\ \A n \in 1..Len(table) : table[n].tmin <= table[n].tmax
       /\ \A n \in 2..Len(table) : table[n].tmin = table[n - 1].tmax
       /\ \A m, n \in 1..Len(table) :
            m < n => table[m].tmax <= table[n].tmin

\* C6 witness: a list of two ascending segments with a gap between them
\* was refused, and no function exists.
C6_Witness ==
  /\ pc = "returned"
  /\ args.op = "Construct"
  /\ Len(args.table) = 2
  /\ args.table[1].tmin <= args.table[1].tmax
  /\ args.table[2].tmin <= args.table[2].tmax
  /\ args.table[1].tmax < args.table[2].tmin
  /\ out.err = "InvalidTableError"
  /\ table = <<>>

\* A call of func.inverse(...) has ended.
InverseEnded == pc = "returned" /\ args.op = "Inverse"

\* |func(T) - V| for the target of the call in progress; not-a-number
\* outside the range.
Residual(T) ==
  AbsVal(Sub(Evaluate(table, <<T>>, 0, "nan").result[1], Num(args.V)))

\* fun0 at the two ends of the range, for the target of the call.
AtMin == fun0(table, args.V, minT(table))

AtMax == fun0(table, args.V, maxT(table))

\* C7: whenever inverse returns a temperature T, from newton or from
\* brentq, |func(T) - V| <= Vtol.
C7_ReturnedTemperatureMeetsTheTolerance ==
  (InverseEnded /\ out.T.given) =>
    /\ out.err = "none"
    /\ LeqVal(Residual(out.T.v), Num(args.Vtol))

\* C7 witness: inverse returned newton's result, whose residual is not
\* zero but within the tolerance.
C7_Witness ==
  /\ InverseEnded
  /\ inv.stage1 = "accepted"
  /\ out.T = Given(inv.newtonT)
  /\ Residual(out.T.v) = Num(1)
  /\ args.Vtol = 1

\* C8 as stated: when stage 1 gives no accepted result and fun0(minT) and
\* fun0(maxT) do not have opposite signs, inverse fails with
\* OutOfDomainError and returns no temperature.
C8_AsStated_NoOppositeSignsMeansOutOfDomain ==
  (InverseEnded /\ inv.stage1 = "rejected" /\ ~(AtMin * AtMax < 0)) =>
    /\ out.err = "OutOfDomainError"
    /\ ~out.T.given

\* C8 amended: when stage 1 gives no accepted result and fun0(minT) and
\* fun0(maxT) are both non-zero and of the same sign, inverse fails with
\* OutOfDomainError and returns no temperature; when one of them is zero,
\* brentq returns that end of the range (minT first) and inverse returns
\* it.
C8_SameStrictSignMeansOutOfDomain ==
  (InverseEnded /\ inv.stage1 = "rejected") =>
    /\ AtMin * AtMax > 0 =>
         /\ out.err = "OutOfDomainError"
         /\ ~out.T.given
    /\ AtMin * AtMax = 0 =>
         /\ out.err = "none"
         /\ out.T = Given(IF AtMin = 0 THEN minT(table) ELSE maxT(table))
    /\ out.err = "OutOfDomainError" => AtMin * AtMax > 0

\* C8 witness: newton's result was rejected, the target lies above the
\* function's values at both ends, and inverse failed with
\* OutOfDomainError.
C8_Witness ==
  /\ InverseEnded
  /\ inv.newton = "returned"
  /\ inv.stage1 = "rejected"
  /\ AtMin < 0
  /\ AtMax < 0
  /\ out.err = "OutOfDomainError"
  /\ ~out.T.given

\* C9: a failure of stage 1 (newton raising, or its result failing the
\* check) always leads to stage 2 and never reaches the caller; when
\* stage 2 fails too, an error reaches the caller and no temperature is
\* returned: ConvergenceError when brentq's result misses the tolerance,
\* and an error brentq raises unchanged (its sign error as the
\* OutOfDomainError of C8).
C9_OnlyStage1FailuresAreSwallowed ==
  /\ pc = "brentq" => inv.stage1 = "rejected"
  /\ inv.stage1 = "rejected" => pc \in {"brentq", "returned"}
  /\ InverseEnded =>
       /\ inv.stage1 \in {"accepted", "rejected"}
       /\ inv.stage1 = "accepted" <=> inv.stage2 = "none"
       /\ inv.stage1 = "accepted" => out.err = "none"
       /\ inv.stage1 = "rejected" =>
            /\ inv.brentq = "returned" =>
                 IF LeqVal(Residual(inv.brentqT), Num(args.Vtol))
                 THEN out.err = "none" /\ out.T = Given(inv.brentqT)
                 ELSE out.err = "ConvergenceError" /\ ~out.T.given
            /\ inv.brentq = "SignError" =>
                 out.err = "OutOfDomainError" /\ ~out.T.given
            /\ inv.brentq \in LibraryErrors =>
                 out.err = inv.brentq /\ ~out.T.given
            /\ inv.brentq \in {"returned", "SignError"} \cup LibraryErrors

\* C9 witness: newton raised, brentq's result missed the tolerance, and the
\* caller got ConvergenceError.
C9_Witness ==
  /\ InverseEnded
  /\ inv.newton = "raised"
  /\ inv.brentq = "returned"
  /\ ~LeqVal(Residual(inv.brentqT), Num(args.Vtol))
  /\ out.err = "ConvergenceError"

\* C10: the facade's constructor succeeds exactly when the function's
\* temperature unit is Celsius and its voltage unit is millivolts; for any
\* other pair it fails with UnsupportedUnitsError and no facade exists.
C10_FacadeNeedsCelsiusAndMillivolts ==
  /\ (pc = "returned" /\ args.op = "FacadeConstruct") =>
       /\ out.err = "none" <=> (Tunits = "C" /\ Vunits = "mV")
       /\ out.err \in {"none", "UnsupportedUnitsError"}
       /\ out.err = "none" <=> facade
  /\ facade => (Tunits = "C" /\ Vunits = "mV")

\* C10 witness: a function in Celsius and microvolts was refused, and no
\* facade exists.
C10_Witness ==
  /\ pc = "returned"
  /\ args.op = "FacadeConstruct"
  /\ Tunits = "C"
  /\ Vunits = "uV"
  /\ out.err = "UnsupportedUnitsError"
  /\ ~facade

\* A call of one of the emf_mV methods has ended.
ForwardUnitsEnded == pc = "returned" /\ args.op = "EmfForwardUnits"

\* T and Tref of that call in degrees Celsius.
CelsiusT == RatFloor(ToCelsius(args.unit, args.x))

CelsiusTref == RatFloor(ToCelsius(args.unit, args.xref))

\* The call of the same method with the reference junction at the ice
\* point: EmfForward(T, Tref=0).
AtIcePoint(T) ==
  emf_mV(args.unit, T, TrefDefault[args.unit], args.derivative, args.policy)

\* C11 as stated: for derivative order 0 and all T and X inside the
\* function's range, EmfForward(T, Tref=X) = Evaluate(T) - Evaluate(X)
\* = EmfForward(T, Tref=0) - EmfForward(X, Tref=0), in every unit.
C11_AsStated_CompensationForAllInRange ==
  (ForwardUnitsEnded /\ args.derivative = 0
     /\ InRange(CelsiusT) /\ InRange(CelsiusTref)) =>
    /\ out.err = "none"
    /\ out.result[1] = RatVal(Sub(ValueUnderRaise(CelsiusT, 0),
                                  ValueUnderRaise(CelsiusTref, 0)))
    /\ AtIcePoint(args.x).err = "none"
    /\ AtIcePoint(args.xref).err = "none"
    /\ out.result[1] = RatSub(AtIcePoint(args.x).result[1],
                              AtIcePoint(args.xref).result[1])

\* C11: for derivative order 0 and all T and X inside the function's
\* range, in every unit, EmfForward(T, Tref=X) = Evaluate(T) - Evaluate(X)
\* at the Celsius values of T and X; this equals EmfForward(T, Tref=0)
\* - EmfForward(X, Tref=0) when the ice point is inside the range too or
\* the policy is "extrapolate".  With the ice point outside the range,
\* EmfForward(T, Tref=0) fails with OutOfRangeError under "raise" and is
\* not-a-number under "nan".
C11_CompensationWithIcePointInRange ==
  (ForwardUnitsEnded /\ args.derivative = 0
     /\ InRange(CelsiusT) /\ InRange(CelsiusTref)) =>
    /\ out.err = "none"
    /\ out.result[1] = RatVal(Sub(ValueUnderRaise(CelsiusT, 0),
                                  ValueUnderRaise(CelsiusTref, 0)))
    /\ (InRange(0) \/ args.policy = "extrapolate") =>
         /\ AtIcePoint(args.x).err = "none"
         /\ AtIcePoint(args.xref).err = "none"
         /\ out.result[1] = RatSub(AtIcePoint(args.x).result[1],
                                   AtIcePoint(args.xref).result[1])
    /\ (~InRange(0) /\ args.policy = "raise") =>
         /\ AtIcePoint(args.x).err = "OutOfRangeError"
         /\ AtIcePoint(args.xref).err = "OutOfRangeError"
    /\ (~InRange(0) /\ args.policy = "nan") =>
         /\ AtIcePoint(args.x).err = "none"
         /\ AtIcePoint(args.x).result[1].nan

\* A Fahrenheit call with two different in-range junctions, the ice point
\* in range, and an emf that is not zero.
C11_Witness ==
  /\ ForwardUnitsEnded
  /\ args.unit = "F"
  /\ args.derivative = 0
  /\ args.policy = "raise"
  /\ InRange(CelsiusT) /\ InRange(CelsiusTref) /\ InRange(0)
  /\ CelsiusTref # 0
  /\ CelsiusT # CelsiusTref
  /\ out.err = "none"
  /\ out.result[1].v # RatInt(0)
  /\ ValueUnderRaise(CelsiusTref, 0).v # 0

\* C12: for derivative order k in 1..3, in every unit, EmfForward gives
\* what Evaluate gives for order k at the Celsius value of T (its error,
\* or its value) with the value multiplied by the unit's multiplier raised
\* to k and no offset added.  The reference temperature plays no part:
\* the result stated here does not read it, and the calls cover every
\* reference temperature, also those outside the range, so that any of
\* them gives the same result and no failure of its own.
C12_DerivativeScaledAndReferenceIgnored ==
  (ForwardUnitsEnded /\ args.derivative \in 1..GaussMaxDerivative) =>
    LET e == Evaluate(table, <<CelsiusT>>, args.derivative, args.policy)
        mul == Tunits_mat["C"]["from"][args.unit][1]
    IN  /\ out.err = e.err
        /\ e.err = "none" =>
             /\ out.result[1].nan = e.result[1].nan
             /\ ~e.result[1].nan =>
                  out.result[1].v =
                    RatMul(RatInt(e.result[1].v), RatPow(mul, args.derivative))

\* A second derivative in degrees Fahrenheit, with the reference junction
\* outside the range under "raise": a value that the scaling changed.
C12_Witness ==
  /\ ForwardUnitsEnded
  /\ args.unit = "F"
  /\ args.derivative = 2
  /\ args.policy = "raise"
  /\ ~InRange(CelsiusTref)
  /\ out.err = "none"
  /\ out.result[1].v # RatInt(0)
  /\ out.result[1].v # RatInt(ValueUnderRaise(CelsiusT, 2).v)

\* A call of one of the inverse_ methods has ended.
FacadeInverseEnded == pc = "returned" /\ args.op = "EmfInverse"

\* C13: in every unit, a temperature that EmfInverse returns is the
\* temperature that Inverse returned for measuredEmf + Evaluate(Tref in
\* Celsius), converted from Celsius to the caller's unit; at its Celsius
\* value Evaluate is defined and Evaluate(T) - Evaluate(Tref) is within
\* the tolerance of measuredEmf.
C13_EmfInverseCompensatesAndConvertsBack ==
  (FacadeInverseEnded /\ out.err = "none") =>
    LET to == Tunits_mat["C"]["to"][args.unit]
        Tc == RatFloor(ToCelsius(args.unit, out.Tu))
        f_T == Evaluate(table, <<Tc>>, 0, "raise")
        f_ref == Evaluate(table, <<CelsiusTref>>, 0, "raise")
    IN  /\ out.T.given
        /\ out.Tu = RatAdd(RatMul(RatInt(out.T.v), to[1]), to[2])
        /\ Tc = out.T.v
        /\ f_ref.err = "none"
        /\ args.V = args.emf + f_ref.result[1].v
        /\ f_T.err = "none"
        /\ Abs(f_T.result[1].v - f_ref.result[1].v - args.emf) <= args.Vtol

\* A Rankine call without start guess, with the reference junction in
\* range away from the ice point and an emf there that is not zero,
\* returned a temperature.
C13_Witness ==
  /\ FacadeInverseEnded
  /\ out.err = "none"
  /\ args.unit = "R"
  /\ ~args.xstart.given
  /\ CelsiusTref # 0
  /\ ValueUnderRaise(CelsiusTref, 0).v # 0
  /\ args.emf # 0
  /\ out.T.v # CelsiusTref

\* C14, as stated: in each of the four units, a call of EmfInverse with an
\* explicit start guess converts the guess to Celsius with the unit's
\* multiplier and offset (1 and 0 for Celsius) and passes it to Inverse,
\* as a call without start guess passes none; the start guess brings no
\* failure of its own.
C14_AsStated_StartGuessConvertedInEveryUnit ==
  (args.op = "EmfInverse" /\ args.xstart.given /\ InRange(CelsiusTref)) =>
    LET row == Tunits_mat["C"]["from"][args.unit]
    IN  /\ out.err # "NameError"
        /\ args.Tstart = Given(RatFloor(Affine(row, args.xstart.v)))
        /\ inv.seed2 = 2 * args.Tstart.v \/ inv = NoInv

\* A round trip has ended.
RoundTripEnded == pc = "returned" /\ args.op = "RoundTrip"

\* The function is strictly increasing, or strictly decreasing, over the
\* grid of its domain.
StrictlyMonotonic ==
  \/ \A t \in minT(table)..(maxT(table) - 1) :
       ValueUnderRaise(t, 0).v < ValueUnderRaise(t + 1, 0).v
  \/ \A t \in minT(table)..(maxT(table) - 1) :
       ValueUnderRaise(t, 0).v > ValueUnderRaise(t + 1, 0).v

\* T is the only temperature of the domain whose emf is within tol of the
\* emf at T.
OnlyMatch(T, tol) ==
  \A t \in minT(table)..maxT(table) :
    Abs(ValueUnderRaise(t, 0).v - ValueUnderRaise(T, 0).v) <= tol => t = T

ConvertedBack == pc = "returned" /\ args.op = "Convert" /\ out.err = "none"

\* C19 as stated: for every ordered pair of the four units a conversion
\* exists, and converting a value and converting the result back yields
\* the value.
C19_AsStated_EveryOrderedPairConverts ==
  (pc = "returned" /\ args.op = "Convert") =>
    /\ out.err = "none"
    /\ out.back = args.x

\* C19: a conversion exists between degrees Celsius and each of the four
\* units, in both directions, and for no other base unit; for each unit
\* the 'to' and 'from' rows are exact inverses of each other (the product
\* of the multipliers is 1 and each offset is the other's, negated and
\* scaled), so that converting a value from Celsius to the unit and back,
\* or from the unit to Celsius and back, yields the value.
C19_ConversionsThroughCelsiusRoundTrip ==
  (pc = "returned" /\ args.op = "Convert") =>
    /\ out.err = "none" <=> args.base = "C"
    /\ out.err # "none" => out.err = "KeyError"
    /\ out.err = "none" =>
         LET to == Tunits_mat["C"]["to"][args.unit]
             from == Tunits_mat["C"]["from"][args.unit]
         IN  /\ out.back = args.x
             /\ RatMul(to[1], from[1]) = RatInt(1)
             /\ RatAdd(RatMul(to[2], from[1]), from[2]) = RatInt(0)
             /\ ToCelsius(args.unit, FromCelsius(args.unit, args.x)) = args.x
             /\ FromCelsius(args.unit, ToCelsius(args.unit, args.x)) = args.x

\* A value that is not whole went from degrees Rankine to degrees Celsius
\* and back.
C19_Witness ==
  /\ ConvertedBack
  /\ args.unit = "R"
  /\ args.dir = "from"
  /\ args.x.d = 2
  /\ out.there # args.x
  /\ out.back = args.x

(***************************************************************************)
(* The registry.                                                           *)
(***************************************************************************)
\* A lookup has ended, found or not.
LookupEnded == pc = "returned" /\ args.op = "Lookup"

\* The properties of the facade looked up have been read.
RangeRead == pc = "returned" /\ args.op = "ReadRange"

\* The module whose entry wins a key: ASTM over NIST over OMEGA.
Winner(id) ==
  IF id \in DOMAIN BundledASTM THEN BundledASTM[id]
  ELSE IF id \in DOMAIN BundledNIST THEN BundledNIST[id]
  ELSE BundledOMEGA[id]

\* C15: once the package is imported, thermocouples has the keys of the
\* three sources together, each key bound to the entry of the last source
\* that defines it in the order OMEGA, NIST, ASTM: 'G' is the ASTM entry and
\* not the OMEGA one.  No lookup and no reading of a facade changes it.
C15_RegistryAssembledInPrecedenceOrder ==
  Assembled =>
    /\ DOMAIN pkg.thermocouples =
         DOMAIN BundledOMEGA \cup DOMAIN BundledNIST \cup DOMAIN BundledASTM
    /\ \A id \in DOMAIN pkg.thermocouples :
         pkg.thermocouples[id] = Winner(id)
    /\ pkg.thermocouples["G"] = pkg.source_ASTM["G"]
    /\ pkg.thermocouples["G"] # pkg.source_OMEGA["G"]
    /\ pkg.thermocouples["G"].source = "ASTM"

\* 'G', the one key two sources define, has been looked up in the
\* registry and in the source that loses it.
C15_Witness ==
  /\ LookupEnded
  /\ Assembled
  /\ args.dict = "thermocouples"
  /\ args.id = "G"
  /\ out.err = "none"
  /\ out.entry.source = "ASTM"
  /\ "G" \in DOMAIN pkg.source_OMEGA
  /\ Len(pkg.source_OMEGA["G"].table) = 1
  /\ Len(out.entry.table) = 2

RatLeq(a, b) == a.n * b.d <= b.n * a.d

\* Every segment has its limits in order and starts where the segment
\* before it ends.
Contiguous(tbl) ==
  /\ Len(tbl) >= 1
  /\ \A i \in 1..Len(tbl) : tbl[i].tmin <= tbl[i].tmax
  /\ \A i \in 1..(Len(tbl) - 1) : tbl[i].tmax = tbl[i + 1].tmin

\* The source modules imported so far.
Imported == { ImportOrder[i] : i \in 1..pkg.imported }

\* C17: no bundled table is refused: the import of the package never ends
\* with an error, every entry of every source module is constructed, each
\* of its segments has minimum <= maximum and each segment starts at the
\* maximum of the one before; so every entry of a source module and of the
\* registry has minT <= maxT, and minT_C <= maxT_C is what a caller reads.
C17_BundledTablesPassConstruction ==
  /\ pkg.err = "none"
  /\ \A m \in Imported :
       /\ DOMAIN pkg[m] = DOMAIN SourceText[m]
       /\ \A id \in DOMAIN pkg[m] :
            /\ pkg[m][id] = SourceText[m][id]
            /\ CheckTable(pkg[m][id].table) = "none"
            /\ Contiguous(pkg[m][id].table)
            /\ minT(pkg[m][id].table) <= maxT(pkg[m][id].table)
  /\ \A id \in DOMAIN pkg.thermocouples :
       /\ Contiguous(pkg.thermocouples[id].table)
       /\ minT(pkg.thermocouples[id].table)
            <= maxT(pkg.thermocouples[id].table)
  /\ RangeRead =>
       /\ RatLeq(out.minT_C, out.maxT_C)
       /\ out.minT_C = RatInt(out.entry.table[1].tmin)
       /\ out.maxT_C = RatInt(out.entry.table[Len(out.entry.table)].tmax)

\* The registry is assembled from the three sources and the limits of
\* type R, the one table of three segments, have been read.
C17_Witness ==
  /\ RangeRead
  /\ Assembled
  /\ Imported = {"source_NIST", "source_ASTM", "source_OMEGA"}
  /\ args.dict = "thermocouples"
  /\ args.id = "R"
  /\ Len(out.entry.table) = 3
  /\ out.minT_C = RatInt(0 - 50000)
  /\ out.maxT_C = RatInt(1768100)

(***************************************************************************)
(* The table after construction.                                           *)
(***************************************************************************)
\* The caller writes to the list the function was constructed from.
CallerWrites == pc = "ready" /\ pc' = "ready" /\ table' # table

\* C20: as the claim has it, a write of the caller to the list it passed
\* to the constructor changes neither minT nor maxT nor the table the
\* function evaluates, and the table stays as the constructor accepted it.
C20_AsStated_CallerWritesDoNotReachTheFunction ==
  [][CallerWrites =>
       /\ minT(table') = minT(table)
       /\ maxT(table') = maxT(table)
       /\ CheckTable(table') = "none"]_vars

(***************************************************************************)
(* The empty table.                                                        *)
(***************************************************************************)
\* C21: as the claim has it, the constructor given an empty list of
\* segments fails with InvalidTableError, the error of every other
\* malformed table, and no function is constructed.
C21_AsStated_EmptyTableIsAnInvalidTable ==
  (pc = "returned" /\ args.op = "Construct" /\ Len(args.table) = 0) =>
    /\ out.err = "InvalidTableError"
    /\ table = <<>>

(***************************************************************************)
(* The order of the two searches of inverse.                               *)
(***************************************************************************)
\* A call of inverse is in progress or has ended.
InInverse == args.op = "Inverse" /\ pc \in {"newton", "brentq", "returned"}

\* Newton's result passes the check of line 211: it lies in the range and
\* its residual is within the tolerance.
NewtonResultGood ==
  /\ inv.newton = "returned"
  /\ InRange(inv.newtonT)
  /\ LeqVal(Residual(inv.newtonT), Num(args.Vtol))

\* C22: inverse runs newton first, seeded at Tstart or, without Tstart, at
\* the midpoint of [minT, maxT]; brentq runs if and only if newton raised or
\* its result failed the check; when newton's result passes the check it is
\* what inverse returns and brentq does not run.
C22_NewtonFirstThenBrentqOnlyOnFailure ==
  InInverse =>
    /\ inv.seed2 = IF args.Tstart.given THEN 2 * args.Tstart.v
                   ELSE minT(table) + maxT(table)
    /\ pc = "newton" =>
         /\ inv.newton = "none"
         /\ inv.stage1 = "none"
         /\ inv.brentq = "none"
         /\ inv.stage2 = "none"
    /\ pc # "newton" =>
         /\ inv.newton \in {"raised", "returned"}
         /\ inv.stage1 = "accepted" <=> NewtonResultGood
         /\ inv.stage1 = "rejected" <=> ~NewtonResultGood
    /\ pc = "brentq" =>
         /\ inv.stage1 = "rejected"
         /\ inv.brentq = "none"
         /\ inv.stage2 = "none"
    /\ pc = "returned" =>
         /\ inv.brentq # "none" <=> inv.stage1 = "rejected"
         /\ inv.stage2 # "none" <=> inv.stage1 = "rejected"
         /\ inv.stage1 = "accepted" =>
              /\ out.err = "none"
              /\ out.T = Given(inv.newtonT)

\* C22 witness: without Tstart, newton was seeded at a midpoint that is
\* not a limit of the range, its result passed the check and was returned,
\* and brentq did not run.
C22_Witness ==
  /\ InverseEnded
  /\ ~args.Tstart.given
  /\ minT(table) < maxT(table)
  /\ inv.seed2 = minT(table) + maxT(table)
  /\ NewtonResultGood
  /\ inv.stage1 = "accepted"
  /\ inv.brentq = "none"
  /\ out.T = Given(inv.newtonT)

(***************************************************************************)
(* Derivatives of the polynomial.                                          *)
(***************************************************************************)
\* j (j - 1) ... (j - k + 1)
RECURSIVE FallingFactorial(_, _)
FallingFactorial(j, k) ==
  IF k = 0 THEN 1 ELSE j * FallingFactorial(j - 1, k - 1)

RECURSIVE Power(_, _)
Power(x, n) == IF n = 0 THEN 1 ELSE x * Power(x, n - 1)

\* The value at x of the k-th derivative of p, term by term from the i-th
\* coefficient on: p[i] is the coefficient of x^(Len(p) - i).
RECURSIVE DerivativeFrom(_, _, _, _)
DerivativeFrom(p, k, x, i) ==
  IF i > Len(p) THEN 0
  ELSE LET j == Len(p) - i
       IN  (IF j >= k
            THEN p[i] * FallingFactorial(j, k) * Power(x, j - k)
            ELSE 0)
             + DerivativeFrom(p, k, x, i + 1)

\* The segment that gives the value of the i-th input of the call.
Source(i) ==
  LET sel == out.selector[i]
  IN  IF sel = 0 THEN table[1]
      ELSE IF sel > Len(table) THEN table[Len(table)]
      ELSE table[sel]

\* C23: for a derivative order k in 0..3 and an input whose segment has no
\* Gaussian term, a call that returns a number returns the value at T of
\* the polynomial differentiated k times: each coefficient of x^j with
\* j >= k multiplied by j (j-1) ... (j-k+1) as the coefficient of x^(j-k),
\* the k lowest terms dropped, and 0 when k exceeds the degree.
C23_DerivativeIsTheFallingFactorialPolynomial ==
  (EvaluateEnded /\ out.err = "none" /\ args.derivative <= 3) =>
    \A i \in 1..Len(args.T) :
      (~out.result[i].nan /\ Len(Source(i).ec) = 0) =>
        /\ out.result[i] =
             Num(DerivativeFrom(Source(i).coefs, args.derivative,
                                args.T[i], 1))
        /\ args.derivative > Len(Source(i).coefs) - 1 =>
             out.result[i] = Num(0)

\* C23 witness: the second derivative of the cubic x^3 - 3x at 2 is 12,
\* and in the same call the second derivative of the line x + 1 is 0.
C23_Witness ==
  /\ EvaluateEnded
  /\ out.err = "none"
  /\ args.derivative = 2
  /\ Len(args.T) = 2
  /\ args.T[1] = 2
  /\ Source(1).coefs = <<1, 0, 0 - 3, 0>>
  /\ Len(Source(1).ec) = 0
  /\ out.result[1] = Num(12)
  /\ Source(2).coefs = <<1, 1>>
  /\ Len(Source(2).ec) = 0
  /\ out.result[2] = Num(0)

(***************************************************************************)
(* inverse of a function that is not monotonic.                            *)
(***************************************************************************)
\* The temperatures of the range whose emf is the target exactly.
ExactRoots ==
  { t \in minT(table)..maxT(table) : ValueUnderRaise(t, 0).v = args.V }

NewtonRootOutside ==
  /\ inv.newton = "returned"
  /\ ~InRange(inv.newtonT)
  /\ Abs(fun0(table, args.V, inv.newtonT)) <= args.Vtol

\* C25: every temperature inverse returns lies in [minT, maxT].  A result
\* of newton outside the range is never returned, even when the
\* extrapolated formula meets the target there: its check fails, brentq
\* runs, and what brentq returns lies in the range.
C25_ReturnedTemperatureLiesInTheRange ==
  /\ (InverseEnded /\ out.T.given) =>
       /\ InRange(out.T.v)
       /\ out.T.v \in {inv.newtonT, inv.brentqT}
  /\ (InInverse /\ pc # "newton" /\ inv.newton = "returned"
        /\ ~InRange(inv.newtonT)) =>
       /\ inv.stage1 = "rejected"
       /\ pc = "returned" =>
            /\ inv.brentq # "none"
            /\ out.T.given =>
                 /\ out.T = Given(inv.brentqT)
                 /\ out.T.v # inv.newtonT
                 /\ InRange(inv.brentqT)

\* C25 witness: newton ended one step below the range, where the
\* extrapolated formula gives the target exactly; the result was refused
\* and inverse returned brentq's, inside the range.
C25_Witness ==
  /\ InverseEnded
  /\ NewtonRootOutside
  /\ inv.newtonT < minT(table)
  /\ fun0(table, args.V, inv.newtonT) = 0
  /\ inv.stage1 = "rejected"
  /\ inv.stage2 = "accepted"
  /\ out.err = "none"
  /\ out.T = Given(inv.brentqT)
  /\ InRange(out.T.v)

(***************************************************************************)
(* The reference junction of an inverse_ method.                           *)
(***************************************************************************)
\* C26: in each of the four units, a call of an inverse_ method whose Tref,
\* converted to Celsius, lies outside [minT, maxT] fails with
\* OutOfRangeError before inverse is entered: no search runs, no target is
\* computed and no temperature is returned; so a search is only ever in
\* progress with the reference junction inside the range.
C26_ReferenceOutOfRangeFailsBeforeTheSearch ==
  /\ (FacadeInverseEnded /\ ~InRange(CelsiusTref)) =>
       /\ out.err = "OutOfRangeError"
       /\ ~out.T.given
       /\ out.Tu = RatInt(0)
       /\ inv = NoInv
       /\ args.V = 0
       /\ IF CelsiusTref < minT(table)
          THEN out.unders = Some(<<CelsiusTref>>) /\ out.overs = None
          ELSE out.overs = Some(<<CelsiusTref>>) /\ out.unders = None
  /\ (args.op = "EmfInverse" /\ pc \in {"newton", "brentq"}) =>
       InRange(CelsiusTref)
  /\ (FacadeInverseEnded /\ inv # NoInv) => InRange(CelsiusTref)

\* C26 witness: a call in kelvins with a start guess and a reference
\* junction one degree above the range failed with OutOfRangeError, and no
\* search ran.
C26_Witness ==
  /\ FacadeInverseEnded
  /\ args.unit = "K"
  /\ args.xstart.given
  /\ CelsiusTref = maxT(table) + 1
  /\ args.xref = Rat(5463 + 20 * (maxT(table) + 1), 20)
  /\ out.err = "OutOfRangeError"
  /\ out.overs = Some(<<CelsiusTref>>)
  /\ inv = NoInv
  /\ ~out.T.given

====
